---- MODULE Spec2Model ----
(***************************************************************************)
(* Model of twitter/thermos/config/loader.py: ThermosProcessWrapper,       *)
(* ThermosTaskWrapper and ThermosConfigLoader, over pystachio templates,   *)
(* and of the commands create, runtask, kill, update and restart of        *)
(* twitter/mesos/bin/mesos_client.py.                                      *)
(***************************************************************************)
EXTENDS Integers, Sequences, FiniteSets, TLC

(* ---------------------------------------------------------------------- *)
(* Bounds                                                                  *)
(* ---------------------------------------------------------------------- *)
MaxWrappers == 2
MaxLoaders == 2
MaxScriptLen == 2
MaxShardsLen == 3
MaxAdded == 1

(* ---------------------------------------------------------------------- *)
(* pystachio references: a Ref is a sequence of components, each either a  *)
(* dereference (.name) or an index ([name]).                               *)
(* ---------------------------------------------------------------------- *)
Deref(n) == [kind |-> "deref", value |-> n]
Index(n) == [kind |-> "index", value |-> n]

RefX == <<Deref("x")>>
RefY == <<Deref("y")>>
RefThermos == <<Deref("thermos")>>
RefPortsOnly == <<Deref("thermos"), Deref("ports")>>
RefHttp == <<Deref("thermos"), Deref("ports"), Index("http")>>
RefAdmin == <<Deref("thermos"), Deref("ports"), Index("admin")>>
RefNested == <<Deref("thermos"), Deref("ports"), Index("health"), Deref("sub")>>
RefDotted == <<Deref("thermos"), Deref("ports"), Deref("health"), Deref("sub")>>

RECURSIVE from_address(_)
(* Ref.from_address: the components of an address a.b[c], given as its     *)
(* pieces                                                                  *)
from_address(a) ==
  IF a = <<>> THEN <<>>
  ELSE IF a[1] = "[" THEN <<Index(a[2])>> \o from_address(SubSeq(a, 4, Len(a)))
  ELSE IF a[1] = "." THEN <<Deref(a[2])>> \o from_address(SubSeq(a, 3, Len(a)))
  ELSE <<Deref(a[1])>> \o from_address(Tail(a))

(* Ref.from_address('thermos.ports') *)
port_scope == from_address(<<"thermos", ".", "ports">>)

(* Ref.scoped_to: the remainder of ref below scope, or the empty sequence  *)
(* (None) when scope is not a proper prefix of ref.                        *)
scoped_to(scope, ref) ==
  IF Len(ref) > Len(scope) /\ SubSeq(ref, 1, Len(scope)) = scope
  THEN SubSeq(ref, Len(scope) + 1, Len(ref))
  ELSE <<>>

(* Ref.action: the first component *)
action(sub) == sub[1]

(* Ref.is_index: the first component is an index *)
is_index(sub) == action(sub).kind = "index"

(* ---------------------------------------------------------------------- *)
(* Template strings: a sequence of chunks, literal text or a {{ref}}.      *)
(* ---------------------------------------------------------------------- *)
Lit(s) == [t |-> "lit", s |-> s, r |-> <<>>]
Hole(r) == [t |-> "ref", s |-> "", r |-> r]

RECURSIVE Normalize(_)
(* adjacent literal chunks are one piece of text *)
Normalize(chunks) ==
  IF Len(chunks) < 2 THEN chunks
  ELSE IF chunks[1].t = "lit" /\ chunks[2].t = "lit"
       THEN Normalize(<<Lit(chunks[1].s \o chunks[2].s)>> \o SubSeq(chunks, 3, Len(chunks)))
       ELSE <<chunks[1]>> \o Normalize(Tail(chunks))

(* A binding is one dict argument of bind(): key Ref -> literal text.      *)
Binding(k, v) == [key |-> k, val |-> v]

(* scopes: sequence of bindings, highest precedence first *)
RECURSIVE Lookup(_, _)
Lookup(scopes, ref) ==
  IF scopes = <<>> THEN [found |-> FALSE, val |-> ""]
  ELSE IF scopes[1].key = ref THEN [found |-> TRUE, val |-> scopes[1].val]
       ELSE Lookup(Tail(scopes), ref)

RECURSIVE Reverse(_)
Reverse(s) == IF s = <<>> THEN <<>> ELSE Reverse(Tail(s)) \o <<Head(s)>>

RECURSIVE Resolve(_, _)
(* MustacheParser.resolve: replace every bound reference by its value *)
Resolve(chunks, scopes) ==
  IF chunks = <<>> THEN <<>>
  ELSE LET c == Head(chunks)
           l == Lookup(scopes, c.r)
       IN  (IF c.t = "ref" /\ l.found THEN <<Lit(l.val)>> ELSE <<c>>)
             \o Resolve(Tail(chunks), scopes)

RECURSIVE Unbound(_)
(* the references left in a string, in order of appearance *)
Unbound(chunks) ==
  IF chunks = <<>> THEN <<>>
  ELSE (IF Head(chunks).t = "ref" THEN <<Head(chunks).r>> ELSE <<>>)
         \o Unbound(Tail(chunks))

(* String.interpolate *)
InterpString(chunks, scopes) == Normalize(Resolve(chunks, scopes))

(* ---------------------------------------------------------------------- *)
(* Integer fields: a python int, or text still to be coerced.              *)
(* ---------------------------------------------------------------------- *)
IntVal(n) == [ty |-> "int", n |-> n, s |-> <<>>]
IntText(chunks) == [ty |-> "str", n |-> 0, s |-> chunks]

Numeric == {"5", "7"}
StrToInt(s) == IF s = "5" THEN 5 ELSE 7

(* Integer.interpolate: [err, v] ; err is a CoercionError *)
InterpInt(f, scopes) ==
  IF f.ty = "int" THEN [err |-> FALSE, v |-> f]
  ELSE LET j == InterpString(f.s, scopes)
       IN  IF Unbound(j) # <<>> THEN [err |-> FALSE, v |-> IntText(j)]
           ELSE IF Len(j) = 1 /\ j[1].s \in Numeric
                THEN [err |-> FALSE, v |-> IntVal(StrToInt(j[1].s))]
                ELSE [err |-> TRUE, v |-> IntText(j)]

(* ---------------------------------------------------------------------- *)
(* Task structs (twitter.thermos.config.schema.Task / Process).            *)
(* A task value is the dict behind the struct; a task object adds the      *)
(* scopes bound to it.                                                     *)
(* ---------------------------------------------------------------------- *)
Proc(n, cmd) == [name |-> n, cmdline |-> cmd]
NoName == [set |-> FALSE, v |-> <<>>]
Name(chunks) == [set |-> TRUE, v |-> chunks]
NoProcesses == [set |-> FALSE, v |-> <<>>]
Processes(ps) == [set |-> TRUE, v |-> ps]
NoInt == [set |-> FALSE, v |-> IntVal(0)]
IntField(f) == [set |-> TRUE, v |-> f]

TaskValue(n, ps, mf) == [name |-> n, processes |-> ps, max_failures |-> mf]
TaskObj(val, scopes) == [value |-> val, scopes |-> scopes]

(* Object.bind: a copy of the object with the new scopes in front; of the  *)
(* arguments of one bind call the later one takes precedence.              *)
Bind_FirstWins(obj, bindings) ==
  TaskObj(obj.value, bindings \o obj.scopes)
Bind(obj, bindings) ==
  TaskObj(obj.value, Reverse(bindings) \o obj.scopes)

(* Struct.interpolate: every field interpolated in the struct's scopes;    *)
(* the result is a fresh struct without scopes.  err is a CoercionError.   *)
InterpProcesses(ps, scopes) ==
  [i \in 1..Len(ps) |-> Proc(ps[i].name, InterpString(ps[i].cmdline, scopes))]

Interpolate(obj) ==
  LET val == obj.value
      mf == InterpInt(val.max_failures.v, obj.scopes)
  IN  [err |-> val.max_failures.set /\ mf.err,
       v |-> TaskValue(
               [set |-> val.name.set, v |-> InterpString(val.name.v, obj.scopes)],
               [set |-> val.processes.set,
                v |-> InterpProcesses(val.processes.v, obj.scopes)],
               [set |-> val.max_failures.set,
                v |-> IF val.max_failures.set THEN mf.v ELSE val.max_failures.v])]

(* Struct.check: required fields are present and every field type-checks   *)
(* after interpolation.                                                    *)
Check(obj) ==
  LET val == obj.value
      mf == InterpInt(val.max_failures.v, obj.scopes)
  IN  IF ~val.name.set
      THEN [ok |-> FALSE, message |-> "Task[name] is required"]
      ELSE IF val.max_failures.set /\ (mf.err \/ mf.v.ty # "int")
           THEN [ok |-> FALSE, message |-> "Task[max_failures] not an Integer"]
           ELSE [ok |-> TRUE, message |-> "OK"]

(* ---------------------------------------------------------------------- *)
(* ThermosProcessWrapper.ports                                             *)
(* ---------------------------------------------------------------------- *)
(* process.interpolate()[1]: the unresolved references of the process      *)
Uninterp(process) == Unbound(process.cmdline)

RECURSIVE ScanRefs(_, _)
(* the for loop of ports(): err is the AssertionError *)
ScanRefs(refs, ports) ==
  IF refs = <<>> THEN [err |-> FALSE, ports |-> ports]
  ELSE LET subscope == scoped_to(port_scope, Head(refs))
       IN  IF subscope # <<>>
           THEN IF ~is_index(subscope)
                THEN [err |-> TRUE, ports |-> ports]
                ELSE ScanRefs(Tail(refs), Append(ports, action(subscope).value))
           ELSE ScanRefs(Tail(refs), ports)

ProcessPorts_Reversed(process) ==
  LET r == ScanRefs(Uninterp(process), <<>>)
  IN  [err |-> r.err, ports |-> Reverse(r.ports)]
ProcessPorts_SkipsMalformed(process) ==
  ScanRefs(SelectSeq(Uninterp(process),
                     LAMBDA ref : scoped_to(port_scope, ref) = <<>>
                                    \/ is_index(scoped_to(port_scope, ref))), <<>>)
ProcessPorts(process) == ScanRefs(Uninterp(process), <<>>)

Range(s) == {s[i] : i \in 1..Len(s)}

(* ---------------------------------------------------------------------- *)
(* Inputs: the task templates a caller or a script can hold, the binding   *)
(* lists and keyword arguments it can pass.                                *)
(* ---------------------------------------------------------------------- *)
T1 == TaskObj(TaskValue(Name(<<Lit("t1")>>), NoProcesses, NoInt), <<>>)
T2 == TaskObj(TaskValue(Name(<<Lit("t2")>>),
        Processes(<<Proc("p1", <<Hole(RefHttp), Lit(" "), Hole(RefHttp)>>),
                    Proc("p2", <<Hole(RefHttp), Hole(RefAdmin), Hole(RefX),
                                 Hole(RefThermos), Hole(RefPortsOnly)>>)>>),
        IntField(IntVal(5))), <<>>)
T3 == TaskObj(TaskValue(Name(<<Lit("t3-"), Hole(RefY)>>),
        Processes(<<Proc("p1", <<Lit("echo "), Hole(RefX)>>)>>),
        IntField(IntText(<<Hole(RefX)>>))), <<>>)
T4 == TaskObj(TaskValue(Name(<<Lit("t4")>>),
        Processes(<<Proc("p1", <<Hole(RefAdmin), Hole(RefNested)>>)>>), NoInt), <<>>)
T5 == TaskObj(T3.value, <<Binding(RefX, "abc")>>)
T6 == TaskObj(TaskValue(Name(<<Lit("t6")>>),
        Processes(<<Proc("p1", <<Hole(RefHttp), Hole(RefDotted)>>)>>), NoInt), <<>>)

Templates == <<T1, T2, T3, T4, T5, T6>>
NT == Len(Templates)

(* the largest number of processes a template has *)
MaxProcesses == Len(T2.value.processes.v)

BindingLists ==
  { <<>>,
    <<Binding(RefHttp, "80"), Binding(RefX, "5")>>,
    <<Binding(RefX, "5"), Binding(RefX, "abc")>>,
    <<Binding(RefX, "abc"), Binding(RefY, "v"), Binding(RefX, "7")>> }

Kw == [bindings : BindingLists, strict : BOOLEAN]

Files == {"a.json"}

(* ---------------------------------------------------------------------- *)
(* JSON documents on disk                                                  *)
(* ---------------------------------------------------------------------- *)
(* a JSON value: a string, as the pieces of its text, where {{ and }} and   *)
(* the parts of an address are pieces of their own; a number; an array of  *)
(* process objects; or the absence of the key                              *)
JAbsent == [j |-> "absent", text |-> <<>>, n |-> 0, items |-> <<>>]
JString(text) == [j |-> "string", text |-> text, n |-> 0, items |-> <<>>]
JNumber(n) == [j |-> "number", text |-> <<>>, n |-> n, items |-> <<>>]
JArray(items) == [j |-> "array", text |-> <<>>, n |-> 0, items |-> items]

RECURSIVE Address(_)
(* the address of a Ref: a.b[c] *)
Address(r) ==
  IF r = <<>> THEN <<>>
  ELSE LET c == r[Len(r)]
           front == SubSeq(r, 1, Len(r) - 1)
       IN  Address(front)
             \o (IF c.kind = "index" THEN <<"[", c.value, "]">>
                 ELSE IF front = <<>> THEN <<c.value>> ELSE <<".", c.value>>)

RECURSIVE StringGet(_)
(* String.get(): the text of the template, references written {{address}}; *)
(* where one piece of literal text ends and the next begins does not show  *)
StringGet(chunks) ==
  IF chunks = <<>> THEN <<>>
  ELSE IF Len(chunks) >= 2 /\ chunks[1].t = "lit" /\ chunks[2].t = "lit"
       THEN StringGet(<<Lit(chunks[1].s \o chunks[2].s)>> \o SubSeq(chunks, 3, Len(chunks)))
  ELSE (IF chunks[1].t = "lit" THEN <<chunks[1].s>>
        ELSE <<"{{">> \o Address(chunks[1].r) \o <<"}}">>)
         \o StringGet(Tail(chunks))

RECURSIVE MustacheSplit(_)
(* String(text): MustacheParser.split, the text cut into literal pieces    *)
(* and references                                                          *)
MustacheSplit(text) ==
  IF text = <<>> THEN <<>>
  ELSE IF text[1] = "{{"
       THEN LET k == CHOOSE i \in 2..Len(text) :
                       text[i] = "}}" /\ \A j \in 2..(i - 1) : text[j] # "}}"
            IN  <<Hole(from_address(SubSeq(text, 2, k - 1)))>>
                  \o MustacheSplit(SubSeq(text, k + 1, Len(text)))
  ELSE <<Lit(text[1])>> \o MustacheSplit(Tail(text))

(* Integer.get(): the int, or the text not coerced yet *)
IntegerGet(f) == IF f.ty = "int" THEN JNumber(f.n) ELSE JString(StringGet(f.s))

(* Struct.get() of a task: a dict with a key for each field that is set *)
get(val) ==
  [name |-> IF val.name.set THEN JString(StringGet(val.name.v)) ELSE JAbsent,
   processes |->
     IF val.processes.set
     THEN JArray([i \in 1..Len(val.processes.v) |->
                    [name |-> val.processes.v[i].name,
                     cmdline |-> StringGet(val.processes.v[i].cmdline)]])
     ELSE JAbsent,
   max_failures |-> IF val.max_failures.set THEN IntegerGet(val.max_failures.v)
                    ELSE JAbsent]

(* Task(js): the struct built from the dict json.load returned, strings    *)
(* parsed as templates, a number kept as the int it is                     *)
Task_WithoutMaxFailures(js) ==
  TaskObj(
    TaskValue(
      IF js.name.j = "absent" THEN NoName ELSE Name(MustacheSplit(js.name.text)),
      IF js.processes.j = "absent" THEN NoProcesses
      ELSE Processes([i \in 1..Len(js.processes.items) |->
                        Proc(js.processes.items[i].name,
                             MustacheSplit(js.processes.items[i].cmdline))]),
      NoInt),
    <<>>)
Task(js) ==
  TaskObj(
    TaskValue(
      IF js.name.j = "absent" THEN NoName ELSE Name(MustacheSplit(js.name.text)),
      IF js.processes.j = "absent" THEN NoProcesses
      ELSE Processes([i \in 1..Len(js.processes.items) |->
                        Proc(js.processes.items[i].name,
                             MustacheSplit(js.processes.items[i].cmdline))]),
      IF js.max_failures.j = "absent" THEN NoInt
      ELSE IF js.max_failures.j = "number" THEN IntField(IntVal(js.max_failures.n))
      ELSE IntField(IntText(MustacheSplit(js.max_failures.text)))),
    <<>>)

(* what a file holds: nothing (no file), text that is not JSON, a JSON     *)
(* array, or a JSON object with the members js, possibly with a key that   *)
(* is no field of Task                                                     *)
NoFile == [jtype |-> "nofile", badkey |-> FALSE, members |-> get(T1.value)]
Garbage == [jtype |-> "garbage", badkey |-> FALSE, members |-> get(T1.value)]
JsonArray == [jtype |-> "array", badkey |-> FALSE, members |-> get(T1.value)]
JsonObject(js) == [jtype |-> "object", badkey |-> FALSE, members |-> js]
JsonBadKey(js) == [jtype |-> "object", badkey |-> TRUE, members |-> js]

(* json.dump / json.dumps of a dict: the JSON object of its members, which *)
(* json.load gives back                                                    *)
json_dump(js) == JsonObject(js)

(* documents some other program may have left on disk *)
ExternalDocs ==
  {NoFile, Garbage, JsonArray, JsonBadKey(get(T1.value)),
   json_dump(get(T2.value)), json_dump(get(T3.value)),
   json_dump(get(TaskValue(NoName, NoProcesses, NoInt)))}

(* ---------------------------------------------------------------------- *)
(* Object references.  A task object is either one of the caller's         *)
(* templates, reached by its index in the heap, or an object with a single *)
(* owner (a copy made by bind, a Task built by from_file), kept inline.    *)
(* ---------------------------------------------------------------------- *)
Shared(tid) == [ref |-> tid, obj |-> T1]
Own(obj) == [ref |-> 0, obj |-> obj]
Null == [ref |-> -1, obj |-> T1]
At(h, p) == IF p.ref > 0 THEN h[p.ref] ELSE p.obj

(* ---------------------------------------------------------------------- *)
(* ThermosTaskWrapper                                                      *)
(* A wrapper is [task: the reference in self._task]; wid, T and B record   *)
(* which construction made it: the identity of the wrapper object (0:      *)
(* None, no wrapper), the template and the bindings it was given.  The     *)
(* identity of a wrapper nobody holds any more is free for the next one.   *)
(* ---------------------------------------------------------------------- *)
None == [task |-> Null, wid |-> 0, T |-> 0, B |-> <<>>]
NoExc == [raised |-> FALSE, exc |-> "", msg |-> ""]
Raise(e, m) == [raised |-> TRUE, exc |-> e, msg |-> m]

(* __init__(self, task, bindings, strict) with heap h: the heap            *)
(* afterwards, the reference stored in self._task, and the exception if    *)
(* one is raised.                                                          *)
TaskWrapper_init_IgnoreStrict(h, p, bindings, strict) ==
  LET task == IF bindings # <<>> THEN Own(Bind(At(h, p), bindings)) ELSE p
      chk == Check(At(h, task))
  IN  IF ~chk.ok
      THEN [out |-> Raise("InvalidTask", chk.message), heap |-> h, task |-> Null]
      ELSE [out |-> NoExc, heap |-> h, task |-> task]
TaskWrapper_init_BindInPlace(h, p, bindings, strict) ==
  LET h2 == IF bindings # <<>> /\ p.ref > 0
            THEN [h EXCEPT ![p.ref] = Bind(h[p.ref], bindings)] ELSE h
      task == IF bindings # <<>> /\ p.ref <= 0 THEN Own(Bind(p.obj, bindings)) ELSE p
      chk == Check(At(h2, task))
  IN  IF ~chk.ok /\ strict
      THEN [out |-> Raise("InvalidTask", chk.message), heap |-> h2, task |-> Null]
      ELSE [out |-> NoExc, heap |-> h2, task |-> task]
TaskWrapper_init(h, p, bindings, strict) ==
  LET task == IF bindings # <<>> THEN Own(Bind(At(h, p), bindings)) ELSE p
      chk == Check(At(h, task))
  IN  IF ~chk.ok /\ strict
      THEN [out |-> Raise("InvalidTask", chk.message), heap |-> h, task |-> Null]
      ELSE [out |-> NoExc, heap |-> h, task |-> task]

RECURSIVE UnionPorts(_, _)
(* the loop of ports(): ports.update(ThermosProcessWrapper(process).ports()) *)
UnionPorts(procs, acc) ==
  IF procs = <<>> THEN [out |-> NoExc, ports |-> acc]
  ELSE LET r == ProcessPorts(Head(procs))
       IN  IF r.err THEN [out |-> Raise("AssertionError", ""), ports |-> {}]
           ELSE UnionPorts(Tail(procs), acc \cup Range(r.ports))

(* ports(self): the exception or the set returned, and the object          *)
(* self._task holds afterwards                                             *)
TaskWrapper_ports_FirstProcessOnly(obj) ==
  LET ti == Interpolate(obj)
      r == IF ti.err THEN [out |-> Raise("CoercionError", ""), ports |-> {}]
           ELSE IF ti.v.processes.set /\ ti.v.processes.v # <<>>
                THEN UnionPorts(<<Head(ti.v.processes.v)>>, {})
                ELSE [out |-> NoExc, ports |-> {}]
  IN  [out |-> r.out, ports |-> r.ports, task |-> obj]
TaskWrapper_ports_KeepsInterpolated(obj) ==
  LET ti == Interpolate(obj)
      r == IF ti.err THEN [out |-> Raise("CoercionError", ""), ports |-> {}]
           ELSE IF ti.v.processes.set
                THEN UnionPorts(ti.v.processes.v, {})
                ELSE [out |-> NoExc, ports |-> {}]
  IN  [out |-> r.out, ports |-> r.ports,
       task |-> IF ti.err THEN obj ELSE TaskObj(ti.v, <<>>)]
TaskWrapper_ports(obj) ==
  LET ti == Interpolate(obj)
      r == IF ti.err THEN [out |-> Raise("CoercionError", ""), ports |-> {}]
           ELSE IF ti.v.processes.set
                THEN UnionPorts(ti.v.processes.v, {})
                ELSE [out |-> NoExc, ports |-> {}]
  IN  [out |-> r.out, ports |-> r.ports, task |-> obj]

(* to_json(self) *)
to_json_Interpolated(obj) == json_dump(get(Interpolate(obj).v))
to_json(obj) == json_dump(get(obj.value))

(* to_file(self, filename): the document written, or the exception *)
to_file(obj) ==
  LET ti == Interpolate(obj)
  IN  IF ti.err THEN [out |-> Raise("CoercionError", ""), doc |-> NoFile]
      ELSE [out |-> NoExc, doc |-> json_dump(get(ti.v))]

(* the body of the try block of from_file: open, json.load, Task(js) and   *)
(* the constructor                                                         *)
from_file_try(h, doc, kw) ==
  IF doc.jtype = "nofile" THEN [out |-> Raise("IOError", ""), heap |-> h, task |-> Null]
  ELSE IF doc.jtype = "garbage"
       THEN [out |-> Raise("ValueError", ""), heap |-> h, task |-> Null]
  ELSE IF doc.jtype # "object" \/ doc.badkey
       THEN [out |-> Raise("TypeError", ""), heap |-> h, task |-> Null]
  ELSE TaskWrapper_init(h, Own(Task(doc.members)), kw.bindings, kw.strict)

(* from_file(filename, **kw): except Exception: return None *)
from_file_NoCatch(h, doc, kw) == from_file_try(h, doc, kw)
from_file(h, doc, kw) ==
  LET r == from_file_try(h, doc, kw)
  IN  IF r.out.raised THEN [out |-> NoExc, heap |-> h, task |-> Null] ELSE r

(* ---------------------------------------------------------------------- *)
(* ThermosConfigLoader                                                     *)
(* ---------------------------------------------------------------------- *)
Names == {"Task", "export", "t"}
Undef == "undef"
ExportFn == "function export"

(* SCHEMA after deposit_schema(SCHEMA) *)
SCHEMA0 == [n \in Names |-> IF n = "Task" THEN "class Task" ELSE Undef]

(* schema_copy = copy.copy(SCHEMA): what the class attribute SCHEMA holds  *)
(* once the evaluation namespace has become ns                             *)
SchemaAliased(schema, ns) == ns
SchemaAfter(schema, ns) == schema

(* ThermosConfigLoader.__init__: self._exported_tasks = [] *)
Loader_init_SharedList(prev) ==
  IF prev = <<>> THEN <<>> ELSE prev[Len(prev)].tasks
Loader_init(prev) == <<>>

(* add_task(self, task) *)
add_task(tasks, w) == Append(tasks, w)

(* tasks(self): the loader's own list, not a copy of it *)
Loader_tasks(tc) == tc.tasks

(* the statements a configuration script is made of *)
Stmt(op, a, v) == [op |-> op, a |-> a, v |-> v, tid |-> 1]
StmtExport(tid) == [op |-> "export", a |-> "", v |-> "", tid |-> tid]
Stmts ==
  {StmtExport(i) : i \in {1, 3}}
    \cup {Stmt("assign", "t", "v1"), Stmt("use", "t", ""), Stmt("raise", "", "")}

Sources == {"script", "missing", "syntax error"}

LoadKw == {kw \in Kw : Len(kw.bindings) = 0 \/ (Len(kw.bindings) = 3 /\ kw.strict)}

(* the options load_json is called with *)
JsonKw == {kw \in Kw : Len(kw.bindings) = 3}

(* the scripts and options of a caller that goes on to use the loaders *)
HoldStmts == {StmtExport(i) : i \in {1, 3}} \cup {Stmt("use", "Task", "")}
HoldKw == {kw \in LoadKw : kw.strict}

Idle == [pc |-> "idle", tasks |-> <<>>, log |-> <<>>, ns |-> SCHEMA0,
         kw |-> [bindings |-> <<>>, strict |-> TRUE], n |-> 0]

NoLast == [op |-> "none", out |-> NoExc, tid |-> 0, kw |-> Idle.kw,
           file |-> "", w |-> None, ports |-> {}, names |-> <<>>,
           doc |-> NoFile, stmt |-> "", n |-> 0]

(* ---------------------------------------------------------------------- *)
(* mesos_client.py: option values                                          *)
(* ---------------------------------------------------------------------- *)
(* the characters a --shards value is made of here; " " stands for any     *)
(* whitespace                                                              *)
Chars == {"0", "1", ",", "x", "-", "+", " "}
DigitChars == <<"0", "1", "2", "3", "4", "5", "6", "7", "8", "9">>
IsDigit(c) == \E d \in 1..Len(DigitChars) : DigitChars[d] = c
DigitVal(c) == (CHOOSE d \in 1..Len(DigitChars) : DigitChars[d] = c) - 1
IsSpace(c) == c = " "
IsSign(c) == c \in {"-", "+"}

(* options.shards: the default None (not set) or the string given *)
ShardsNotSet == [set |-> FALSE, s |-> <<>>]
ShardsGiven(s) == [set |-> TRUE, s |-> s]
ShardsValues ==
  {ShardsNotSet}
    \cup {ShardsGiven(s) : s \in UNION {[1..n -> Chars] : n \in 0..MaxShardsLen}}

(* not shards: None and the empty string are false *)
Falsy(shards) == ~shards.set \/ shards.s = <<>>

RECURSIVE split(_)
(* shards.split(',') *)
split(s) ==
  IF \A i \in 1..Len(s) : s[i] # ","
  THEN <<s>>
  ELSE LET i == CHOOSE j \in 1..Len(s) : s[j] = "," /\ \A k \in 1..(j - 1) : s[k] # ","
       IN  <<SubSeq(s, 1, i - 1)>> \o split(SubSeq(s, i + 1, Len(s)))

RECURSIVE lstrip(_)
lstrip(s) == IF s # <<>> /\ IsSpace(Head(s)) THEN lstrip(Tail(s)) ELSE s

(* int(): whitespace around the literal is ignored *)
strip(s) == Reverse(lstrip(Reverse(lstrip(s))))

(* the digits of a literal, after its sign if it has one and the           *)
(* whitespace that may follow the sign                                     *)
Unsigned(lit) == IF lit # <<>> /\ IsSign(lit[1]) THEN lstrip(Tail(lit)) ELSE lit

(* whether int(piece) raises ValueError *)
ValueError(piece) ==
  LET d == Unsigned(strip(piece))
  IN  d = <<>> \/ \E i \in 1..Len(d) : ~IsDigit(d[i])

RECURSIVE Decimal(_)
(* the number a string of decimal digits denotes *)
Decimal(d) ==
  IF d = <<>> THEN 0
  ELSE 10 * Decimal(SubSeq(d, 1, Len(d) - 1)) + DigitVal(d[Len(d)])

(* int(piece) *)
ToInt(piece) ==
  LET lit == strip(piece)
  IN  IF lit[1] = "-" THEN 0 - Decimal(Unsigned(lit)) ELSE Decimal(Unsigned(lit))

(* the shard argument of an API call: None or a list of shard ids *)
AllShards == [none |-> TRUE, ids |-> <<>>]
ShardList(ids) == [none |-> FALSE, ids |-> ids]

(* a message: its text and, for a '%r' format, the repr of the value *)
Text(t) == [text |-> t, repr |-> <<>>]
repr(s) == <<"'">> \o s \o <<"'">>
NoMessage == Text("")

(* _getshards(shards): the value returned, or the message it dies with *)
getshards_EmptyOnError(shards) ==
  IF Falsy(shards) THEN [died |-> FALSE, msg |-> NoMessage, val |-> AllShards]
  ELSE LET parts == split(shards.s)
           good == SelectSeq(parts, LAMBDA q : ~ValueError(q))
       IN  [died |-> FALSE, msg |-> NoMessage,
            val |-> ShardList([i \in 1..Len(good) |-> ToInt(good[i])])]
getshards(shards) ==
  IF Falsy(shards) THEN [died |-> FALSE, msg |-> NoMessage, val |-> AllShards]
  ELSE LET parts == split(shards.s)
       IN  IF \E i \in 1..Len(parts) : ValueError(parts[i])
           THEN [died |-> TRUE, val |-> AllShards,
                 msg |-> [text |-> "Invalid shards list: ", repr |-> repr(shards.s)]]
           ELSE [died |-> FALSE, msg |-> NoMessage,
                 val |-> ShardList([i \in 1..Len(parts) |-> ToInt(parts[i])])]

CREATE_STATES == {"PENDING", "RUNNING", "FINISHED"}

RUNTASK_INSTANCE_LIMIT == 25
RUNTASK_CPU_LIMIT == 50
(* Amount(50, Data.GB) and Amount(500, Data.GB), in MB *)
RUNTASK_RAM_LIMIT == 50 * 1024
RUNTASK_DISK_LIMIT == 500 * 1024

(* the options and arguments of one command line.  cpus is in tenths of a  *)
(* core, ram and disk in MB; local: config.cluster() == 'local'; role and  *)
(* job: the role and the job name are not empty; url: the scheduler client *)
(* has a url; spawn: twitter.mesos.client.spawn_local can be imported;     *)
(* respOk: the scheduler answers OK; waits: monitor.wait_until returns     *)
Defaults ==
  [shards |-> ShardsNotSet, wait_until |-> "PENDING", local |-> FALSE,
   yes |-> FALSE, instances |-> 1, cpus |-> 10, ram |-> 1024, disk |-> 1024,
   nargs |-> 2, role |-> TRUE, job |-> TRUE, url |-> TRUE, open_browser |-> FALSE,
   spawn |-> TRUE, respOk |-> TRUE, waits |-> TRUE]

(* the command lines of each command *)
OpenOptions ==
  {[Defaults EXCEPT !.shards = ShardsGiven(<<"1">>), !.role = r, !.job = j,
                    !.url = u, !.open_browser = o] :
     r \in BOOLEAN, j \in BOOLEAN, u \in BOOLEAN, o \in BOOLEAN}
ShardsOptions ==
  {[Defaults EXCEPT !.shards = sh, !.respOk = ok] :
     sh \in ShardsValues, ok \in BOOLEAN} \cup OpenOptions
CreateOptions ==
  {[Defaults EXCEPT !.wait_until = st, !.local = lo, !.respOk = ok, !.waits = wr,
                    !.role = r, !.url = u, !.spawn = sp] :
     st \in CREATE_STATES, lo \in BOOLEAN, ok \in BOOLEAN, wr \in BOOLEAN,
     r \in BOOLEAN, u \in BOOLEAN, sp \in BOOLEAN} \cup OpenOptions
RuntaskOptions ==
  {[Defaults EXCEPT !.yes = y, !.instances = i, !.cpus = c, !.ram = r, !.disk = d,
                    !.nargs = n] :
     y \in BOOLEAN, i \in {1, 25, 26}, c \in {10, 20, 21},
     r \in {1024, 2048, 2049}, d \in {1024, 20480, 20481}, n \in {1, 2}}

(* ---------------------------------------------------------------------- *)
(* mesos_client.py: what a command does, as the sequence of calls it makes *)
(* on its collaborators and the way it ends                                *)
(* ---------------------------------------------------------------------- *)
Ev(e) == [e |-> e, shards |-> AllShards, arg |-> NoMessage]
EvShards(e, val) == [e |-> e, shards |-> val, arg |-> NoMessage]
EvArg(e, msg) == [e |-> e, shards |-> AllShards, arg |-> msg]

Returned(events) == [events |-> events, exit |-> "returned"]
Exited(events) == [events |-> events, exit |-> "exited"]
Blocked(events) == [events |-> events, exit |-> "blocked"]

(* die(msg): the message is logged and the process exits *)
die(events, msg) == Exited(Append(events, EvArg("die", msg)))

(* check_and_log_response(resp): the process exits unless resp is OK *)
check_and_log_response(events, ok) ==
  IF ok THEN Returned(Append(events, Ev("check_and_log_response")))
  ELSE Exited(Append(events, Ev("check_and_log_response")))

(* monitor.wait_until(predicate) *)
wait_until(events, predicate, returns) ==
  IF returns THEN Returned(Append(events, EvArg("wait_until", Text(predicate))))
  ELSE Blocked(Append(events, EvArg("wait_until", Text(predicate))))

(* synthesize_url(scheduler_client, role, job): found tells whether a url  *)
(* is returned rather than None                                            *)
synthesize_url(events, opt) ==
  IF ~opt.url THEN [run |-> Returned(events), found |-> FALSE]
  ELSE IF opt.job /\ ~opt.role
       THEN [run |-> die(events, Text("If job specified, must specify role!")),
             found |-> FALSE]
       ELSE [run |-> Returned(events), found |-> TRUE]

(* handle_open(scheduler_client, role, job), when the command is still     *)
(* running                                                                 *)
handle_open(run, opt) ==
  IF run.exit # "returned" THEN run
  ELSE LET u == synthesize_url(Append(run.events, Ev("handle_open")), opt)
       IN  IF u.found /\ opt.open_browser
           THEN Returned(Append(u.run.events, Ev("webbrowser.open_new_tab")))
           ELSE u.run

(* spawn_local(...): the function of twitter.mesos.client.spawn_local, or  *)
(* when that cannot be imported the one defined here, which prints that    *)
(* local spawning is not supported and exits                               *)
spawn_local(events, opt) ==
  IF opt.spawn THEN Returned(Append(events, Ev("spawn_local"))) ELSE Exited(events)

(* create(jobname, config_file) *)
create_IgnoresWaitUntil(opt) ==
  LET e1 == <<Ev("get_config")>>
  IN  IF opt.local THEN spawn_local(e1, opt)
      ELSE handle_open(check_and_log_response(
             e1 \o <<Ev("MesosClientAPI"), Ev("JobMonitor"), Ev("create_job")>>,
             opt.respOk), opt)
create(opt) ==
  LET e1 == <<Ev("get_config")>>
  IN  IF opt.local THEN spawn_local(e1, opt)
      ELSE LET r == handle_open(check_and_log_response(
                      e1 \o <<Ev("MesosClientAPI"), Ev("JobMonitor"), Ev("create_job")>>,
                      opt.respOk), opt)
           IN  IF r.exit # "returned" THEN r
               ELSE IF opt.wait_until = "RUNNING"
                    THEN wait_until(r.events, "running_or_finished", opt.waits)
               ELSE IF opt.wait_until = "FINISHED"
                    THEN wait_until(r.events, "terminal", opt.waits)
               ELSE r

(* task_is_expensive(options) *)
task_is_expensive_AtLimit(opt) ==
  IF opt.yes THEN FALSE
  ELSE \/ opt.instances >= RUNTASK_INSTANCE_LIMIT
       \/ opt.instances * opt.cpus >= RUNTASK_CPU_LIMIT * 10
       \/ opt.instances * opt.ram >= RUNTASK_RAM_LIMIT
       \/ opt.instances * opt.disk >= RUNTASK_DISK_LIMIT
task_is_expensive(opt) ==
  IF opt.yes THEN FALSE
  ELSE LET errors ==
             (IF opt.instances > RUNTASK_INSTANCE_LIMIT THEN <<"instances">> ELSE <<>>)
               \o (IF opt.instances * opt.cpus > RUNTASK_CPU_LIMIT * 10
                   THEN <<"CPU">> ELSE <<>>)
               \o (IF opt.instances * opt.ram > RUNTASK_RAM_LIMIT
                   THEN <<"RAM">> ELSE <<>>)
               \o (IF opt.instances * opt.disk > RUNTASK_DISK_LIMIT
                   THEN <<"disk">> ELSE <<>>)
       IN  errors # <<>>

(* runtask(args, options) *)
runtask(opt) ==
  IF opt.nargs < 2 THEN Exited(<<Ev("app.error")>>)
  ELSE LET e1 == <<Ev("Cluster.assert_exists")>>
       IN  IF task_is_expensive(opt) THEN die(e1, Text("Task too expensive."))
           ELSE Returned(e1 \o <<Ev("Quickrun"), Ev("MesosClientAPI"), Ev("qr.run")>>)

(* kill(role, jobname) *)
kill(opt) ==
  LET e1 == <<Ev("MesosClientAPI")>>
      g == getshards(opt.shards)
  IN  IF g.died THEN die(e1, g.msg)
      ELSE handle_open(check_and_log_response(
             Append(e1, EvShards("kill_job", g.val)), opt.respOk), opt)

(* update(jobname, config_file) *)
update(opt) ==
  LET e1 == <<Ev("get_config"), Ev("MesosClientAPI")>>
      g == getshards(opt.shards)
  IN  IF g.died THEN die(e1, g.msg)
      ELSE check_and_log_response(Append(e1, EvShards("update_job", g.val)), opt.respOk)

(* restart(role, job) *)
restart_NoShardsCheck(opt) ==
  LET e1 == <<Ev("MesosClientAPI")>>
      g == getshards(opt.shards)
  IN  IF g.died THEN die(e1, g.msg)
      ELSE handle_open(check_and_log_response(
             Append(e1, EvShards("restart", g.val)), opt.respOk), opt)
restart(opt) ==
  LET e1 == <<Ev("MesosClientAPI")>>
      g == getshards(opt.shards)
  IN  IF Falsy(opt.shards) THEN die(e1, Text("--shards is required"))
      ELSE IF g.died THEN die(e1, g.msg)
      ELSE handle_open(check_and_log_response(
             Append(e1, EvShards("restart", g.val)), opt.respOk), opt)

(* before any command has run *)
NoCommand == [cmd |-> "", opt |-> Defaults, events |-> <<>>, exit |-> ""]

(* ---------------------------------------------------------------------- *)
(* State                                                                   *)
(* ---------------------------------------------------------------------- *)
VARIABLES
  heap,      \* the caller's task templates, by id
  wrappers,  \* the wrappers the caller holds
  nextW,     \* identity of the next wrapper constructed
  fs,        \* the file system: file name -> document
  writer,    \* file name -> the wrapper whose to_file wrote the document, if any
  loaders,   \* the loaders returned to the caller
  SCHEMA,    \* ThermosConfigLoader.SCHEMA
  lc,        \* the load call in progress: its loader, namespace and position
  last,      \* the last call made by the caller and its outcome
  cli        \* the last mesos_client command run: its options, calls and end

vars == <<heap, wrappers, nextW, fs, writer, loaders, SCHEMA, lc, last, cli>>

Init ==
  /\ heap = Templates
  /\ wrappers = <<>>
  /\ nextW = 1
  /\ fs = [f \in Files |-> NoFile]
  /\ writer = [f \in Files |-> None]
  /\ loaders = <<>>
  /\ SCHEMA = SCHEMA0
  /\ lc = Idle
  /\ last = NoLast
  /\ cli = NoCommand

Wrapper(p, tid, b) == [task |-> p, wid |-> nextW, T |-> tid, B |-> b]
TaskOf(w) == At(heap, w.task)

(* ThermosTaskWrapper(heap[tid], bindings, strict) called by the caller *)
New(tid, kw) ==
  /\ lc.pc = "idle"
  /\ Len(wrappers) < MaxWrappers
  /\ LET r == TaskWrapper_init(heap, Shared(tid), kw.bindings, kw.strict)
         w == IF r.out.raised THEN None ELSE Wrapper(r.task, tid, kw.bindings)
     IN  /\ heap' = r.heap
         /\ wrappers' = IF r.out.raised THEN wrappers ELSE Append(wrappers, w)
         /\ nextW' = IF r.out.raised THEN nextW ELSE nextW + 1
         /\ last' = [NoLast EXCEPT !.op = "new", !.out = r.out, !.tid = tid,
                       !.kw = kw, !.w = w]
  /\ UNCHANGED <<cli, fs, writer, loaders, SCHEMA, lc>>

(* wrappers[i].ports(); last.n tells a call that repeats the call before   *)
(* it on the same wrapper (2) from a first one (1)                         *)
Ports(i) ==
  /\ lc.pc = "idle"
  /\ LET w == wrappers[i]
         r == TaskWrapper_ports(TaskOf(w))
     IN  /\ wrappers' = IF r.task = TaskOf(w) THEN wrappers
                        ELSE [wrappers EXCEPT ![i].task = Own(r.task)]
         /\ last' = [NoLast EXCEPT !.op = "ports", !.out = r.out, !.w = w,
                       !.ports = r.ports,
                       !.n = IF last.op = "ports" /\ last.w.wid = w.wid THEN 2 ELSE 1]
  /\ UNCHANGED <<cli, heap, nextW, fs, writer, loaders, SCHEMA, lc>>

(* ThermosProcessWrapper(p).ports() for the k-th process p of the          *)
(* interpolated task of wrappers[i], as ThermosTaskWrapper.ports calls it  *)
Scan(i, k) ==
  /\ lc.pc = "idle"
  /\ LET ti == Interpolate(TaskOf(wrappers[i]))
     IN  /\ ~ti.err
         /\ ti.v.processes.set
         /\ k \in 1..Len(ti.v.processes.v)
         /\ LET r == ProcessPorts(ti.v.processes.v[k])
            IN  last' = [NoLast EXCEPT
                           !.op = "scan", !.w = wrappers[i], !.n = k,
                           !.out = IF r.err THEN Raise("AssertionError", "") ELSE NoExc,
                           !.names = IF r.err THEN <<>> ELSE r.ports]
  /\ UNCHANGED <<cli, heap, wrappers, nextW, fs, writer, loaders, SCHEMA, lc>>

(* wrappers[i].to_json() *)
ToJson(i) ==
  /\ lc.pc = "idle"
  /\ last' = [NoLast EXCEPT !.op = "to_json", !.w = wrappers[i],
                !.doc = to_json(TaskOf(wrappers[i]))]
  /\ UNCHANGED <<cli, heap, wrappers, nextW, fs, writer, loaders, SCHEMA, lc>>

(* wrappers[i].to_file(f) *)
ToFile(i, f) ==
  /\ lc.pc = "idle"
  /\ LET r == to_file(TaskOf(wrappers[i]))
     IN  /\ fs' = IF r.out.raised THEN fs ELSE [fs EXCEPT ![f] = r.doc]
         /\ writer' = IF r.out.raised THEN writer
                      ELSE [writer EXCEPT ![f] = wrappers[i]]
         /\ last' = [NoLast EXCEPT !.op = "to_file", !.out = r.out,
                       !.w = wrappers[i], !.file = f, !.doc = r.doc]
  /\ UNCHANGED <<cli, heap, wrappers, nextW, loaders, SCHEMA, lc>>

(* ThermosTaskWrapper.from_file(f, **kw) *)
FromFile(f, kw) ==
  /\ lc.pc = "idle"
  /\ LET r == from_file(heap, fs[f], kw)
         w == IF r.out.raised \/ r.task = Null THEN None
              ELSE Wrapper(r.task, 0, kw.bindings)
     IN  /\ heap' = r.heap
         /\ last' = [NoLast EXCEPT !.op = "from_file", !.out = r.out, !.kw = kw,
                       !.file = f, !.w = w]
  /\ UNCHANGED <<cli, wrappers, nextW, fs, writer, loaders, SCHEMA, lc>>

(* another program writes or removes file f *)
WriteExternal(f, doc) ==
  /\ lc.pc = "idle"
  /\ fs[f] # doc
  /\ fs' = [fs EXCEPT ![f] = doc]
  /\ writer' = [writer EXCEPT ![f] = None]
  /\ last' = [NoLast EXCEPT !.op = "external", !.file = f]
  /\ UNCHANGED <<cli, heap, wrappers, nextW, loaders, SCHEMA, lc>>

(* ThermosConfigLoader.load_json(f, **kw) *)
LoadJson(f, kw) ==
  /\ lc.pc = "idle"
  /\ Len(loaders) < MaxLoaders
  /\ LET r == from_file(heap, fs[f], kw)
         w == IF r.out.raised \/ r.task = Null THEN None
              ELSE Wrapper(r.task, 0, kw.bindings)
     IN  /\ heap' = r.heap
         /\ nextW' = IF w = None THEN nextW ELSE nextW + 1
         /\ loaders' = IF r.out.raised THEN loaders
                       ELSE Append(loaders, [tasks |-> add_task(Loader_init(loaders), w),
                                             log |-> <<w>>, added |-> <<>>, kw |-> kw,
                                             ns |-> SCHEMA0, by |-> "load_json"])
         /\ last' = [NoLast EXCEPT !.op = "load_json", !.out = r.out, !.kw = kw,
                       !.file = f, !.w = w]
  /\ UNCHANGED <<cli, wrappers, fs, writer, SCHEMA, lc>>

(* ThermosConfigLoader.load(filename, **kw), up to the evaluation of the   *)
(* source: the loader, export and the namespace are set up, the file is    *)
(* opened and compiled                                                     *)
LoadBegin(src, kw) ==
  /\ lc.pc = "idle"
  /\ Len(loaders) < MaxLoaders
  /\ LET ns == [SCHEMA EXCEPT !["export"] = ExportFn]
     IN  /\ SCHEMA' = SchemaAfter(SCHEMA, ns)
         /\ IF src = "script"
            THEN /\ lc' = [pc |-> "eval", tasks |-> Loader_init(loaders), log |-> <<>>,
                           ns |-> ns, kw |-> kw, n |-> 0]
                 /\ last' = [NoLast EXCEPT !.op = "load begin", !.kw = kw]
            ELSE /\ lc' = Idle
                 /\ last' = [NoLast EXCEPT !.op = "load", !.kw = kw,
                               !.out = Raise(IF src = "missing" THEN "IOError"
                                             ELSE "SyntaxError", "")]
  /\ UNCHANGED <<cli, heap, wrappers, nextW, fs, writer, loaders>>

(* export(task), as the script calls it:                                  *)
(* tc.add_task(ThermosTaskWrapper(task, **kw)); w is the wrapper it made   *)
export_Swallow(h, tasks, tid, kw, w0) ==
  LET r == TaskWrapper_init(h, Shared(tid), kw.bindings, kw.strict)
      w == [w0 EXCEPT !.task = r.task]
  IN  [out |-> NoExc, heap |-> r.heap, w |-> IF r.out.raised THEN None ELSE w,
       tasks |-> IF r.out.raised THEN tasks ELSE add_task(tasks, w)]
export(h, tasks, tid, kw, w0) ==
  LET r == TaskWrapper_init(h, Shared(tid), kw.bindings, kw.strict)
      w == [w0 EXCEPT !.task = r.task]
  IN  [out |-> r.out, heap |-> r.heap, w |-> IF r.out.raised THEN None ELSE w,
       tasks |-> IF r.out.raised THEN tasks ELSE add_task(tasks, w)]

(* one statement of the source is executed in the namespace *)
LoadStmt(st) ==
  /\ lc.pc = "eval"
  /\ lc.n < MaxScriptLen
  /\ LET calls == st.op = "export" /\ lc.ns["export"] = ExportFn
         r == export(heap, lc.tasks, st.tid, lc.kw,
                     Wrapper(Null, st.tid, lc.kw.bindings))
         out == CASE st.op = "export" /\ ~calls -> Raise("TypeError", "")
                  [] calls -> r.out
                  [] st.op = "use" /\ lc.ns[st.a] = Undef -> Raise("NameError", st.a)
                  [] st.op = "raise" -> Raise("RuntimeError", "")
                  [] OTHER -> NoExc
         ns == IF st.op = "assign" THEN [lc.ns EXCEPT ![st.a] = st.v] ELSE lc.ns
     IN  /\ heap' = IF calls THEN r.heap ELSE heap
         /\ nextW' = IF out.raised THEN nextW - Len(lc.log)
                      ELSE IF calls THEN nextW + 1 ELSE nextW
         /\ SCHEMA' = SchemaAfter(SCHEMA, ns)
         /\ IF out.raised
            THEN /\ lc' = Idle
                 /\ last' = [NoLast EXCEPT !.op = "load", !.out = out, !.kw = lc.kw,
                               !.tid = st.tid, !.stmt = st.op, !.n = Len(lc.log)]
            ELSE /\ lc' = [lc EXCEPT !.n = @ + 1, !.ns = ns,
                             !.tasks = IF calls THEN r.tasks ELSE @,
                             !.log = IF calls THEN Append(@, r.w) ELSE @]
                 /\ last' = [NoLast EXCEPT !.op = "load stmt", !.kw = lc.kw,
                               !.tid = st.tid, !.stmt = st.op,
                               !.w = IF calls THEN r.w ELSE None]
  /\ UNCHANGED <<cli, wrappers, fs, writer, loaders>>

(* the source is exhausted: return tc *)
LoadReturn ==
  /\ lc.pc = "eval"
  /\ loaders' = Append(loaders, [tasks |-> lc.tasks, log |-> lc.log, added |-> <<>>,
                                 kw |-> lc.kw, ns |-> lc.ns, by |-> "load"])
  /\ lc' = Idle
  /\ last' = [NoLast EXCEPT !.op = "load", !.kw = lc.kw]
  /\ UNCHANGED <<cli, heap, wrappers, nextW, fs, writer, SCHEMA>>

(* the wrapper the caller has at hand: the first task of the first loader  *)
(* it was returned, if that is a wrapper                                   *)
CallerWrappers ==
  IF loaders # <<>> /\ Loader_tasks(loaders[1]) # <<>>
  THEN {Loader_tasks(loaders[1])[1]} \ {None} ELSE {}

RECURSIVE CallerAdded(_)
(* the number of entries the caller has put into the loaders *)
CallerAdded(ls) == IF ls = <<>> THEN 0 ELSE Len(Head(ls).added) + CallerAdded(Tail(ls))

(* the caller calls tc.add_task(x) on loader i, or appends x to the list   *)
(* tc.tasks() returned, which is the list of the loader                    *)
CallerAppends(op, i, tasks, x) ==
  /\ lc.pc = "idle"
  /\ CallerAdded(loaders) < MaxAdded
  /\ loaders' = [loaders EXCEPT ![i].tasks = tasks, ![i].added = Append(@, x)]
  /\ last' = [NoLast EXCEPT !.op = op, !.w = x, !.n = i]
  /\ UNCHANGED <<cli, heap, wrappers, nextW, fs, writer, SCHEMA, lc>>

AddTask(i, x) == CallerAppends("add_task", i, add_task(loaders[i].tasks, x), x)
TasksAppend(i, x) ==
  CallerAppends("tasks append", i, Append(Loader_tasks(loaders[i]), x), x)

(* one run of the client: the command named, with the options given *)
Command(cmd, opt, run) ==
  /\ lc.pc = "idle"
  /\ cli = NoCommand
  /\ cli' = [cmd |-> cmd, opt |-> opt, events |-> run.events, exit |-> run.exit]
  /\ UNCHANGED <<heap, wrappers, nextW, fs, writer, loaders, SCHEMA, lc, last>>

Create(opt) == Command("create", opt, create(opt))
Runtask(opt) == Command("runtask", opt, runtask(opt))
Kill(opt) == Command("kill", opt, kill(opt))
Update(opt) == Command("update", opt, update(opt))
Restart(opt) == Command("restart", opt, restart(opt))

(* ---------------------------------------------------------------------- *)
(* Specifications                                                          *)
(* ---------------------------------------------------------------------- *)
(* a caller constructing wrappers and querying them *)
NextWrap ==
  \/ \E tid \in 1..NT, kw \in Kw : New(tid, kw)
  \/ \E i \in 1..Len(wrappers) : Ports(i)
  \/ \E i \in 1..Len(wrappers) : ToJson(i)

SpecWrap == Init /\ [][NextWrap]_vars

(* a caller holding one wrapper, querying and serialising it *)
NextPure ==
  \/ \E tid \in 1..NT, kw \in Kw : wrappers = <<>> /\ New(tid, kw)
  \/ \E i \in 1..Len(wrappers) : Ports(i)
  \/ \E i \in 1..Len(wrappers), k \in 1..MaxProcesses : Scan(i, k)
  \/ \E i \in 1..Len(wrappers) : ToJson(i)
  \/ \E i \in 1..Len(wrappers), f \in Files : ToFile(i, f)

SpecPure == Init /\ [][NextPure]_vars

(* a caller holding one wrapper, writing and reading task files *)
NextFile ==
  \/ \E tid \in 1..NT, kw \in Kw : wrappers = <<>> /\ New(tid, kw)
  \/ \E i \in 1..Len(wrappers), f \in Files : ToFile(i, f)
  \/ \E f \in Files, kw \in Kw : FromFile(f, kw)
  \/ \E f \in Files, doc \in ExternalDocs : WriteExternal(f, doc)

SpecFile == Init /\ [][NextFile]_vars

(* a caller loading configurations *)
NextLoad ==
  \/ \E src \in Sources, kw \in LoadKw : LoadBegin(src, kw)
  \/ \E st \in Stmts : LoadStmt(st)
  \/ LoadReturn
  \/ \E f \in Files, kw \in LoadKw : LoadJson(f, kw)

SpecLoad == Init /\ [][NextLoad]_vars

(* a caller loading configurations and adding to the loaders it holds *)
NextHold ==
  \/ \E kw \in HoldKw : LoadBegin("script", kw)
  \/ \E st \in HoldStmts : LoadStmt(st)
  \/ LoadReturn
  \/ \E f \in Files, kw \in HoldKw : LoadJson(f, kw)
  \/ \E i \in 1..Len(loaders), x \in CallerWrappers : AddTask(i, x)
  \/ \E i \in 1..Len(loaders) : TasksAppend(i, None)

SpecHold == Init /\ [][NextHold]_vars

(* a caller loading JSON task files that other programs write *)
NextJson ==
  \/ \E f \in Files, doc \in ExternalDocs : WriteExternal(f, doc)
  \/ \E f \in Files, kw \in JsonKw : LoadJson(f, kw)
  \/ \E i \in 1..Len(loaders), x \in CallerWrappers : AddTask(i, x)
  \/ \E i \in 1..Len(loaders) : TasksAppend(i, None)

SpecJson == Init /\ [][NextJson]_vars

(* a user running client commands *)
NextClient ==
  \/ \E opt \in CreateOptions : Create(opt)
  \/ \E opt \in RuntaskOptions : Runtask(opt)
  \/ \E opt \in ShardsOptions : Kill(opt)
  \/ \E opt \in ShardsOptions : Update(opt)
  \/ \E opt \in ShardsOptions : Restart(opt)

SpecClient == Init /\ [][NextClient]_vars

Next == NextWrap \/ NextPure \/ NextFile \/ NextLoad \/ NextHold \/ NextJson \/ NextClient

Spec == Init /\ [][Next]_vars

(* ---------------------------------------------------------------------- *)
(* Properties                                                              *)
(* ---------------------------------------------------------------------- *)
(* T bound with B, written out: the template's value, with the bindings    *)
(* of B in front of the template's own scopes, the last of B first         *)
BoundWith(T, B) ==
  [value |-> T.value,
   scopes |-> [i \in 1..(Len(B) + Len(T.scopes)) |->
                 IF i <= Len(B) THEN B[Len(B) + 1 - i] ELSE T.scopes[i - Len(B)]]]

(* C1: constructing a wrapper from template T with bindings B raises       *)
(* InvalidTask, carrying the validator's message, exactly when strict is   *)
(* set and T bound with B fails validation; in every other case the        *)
(* construction succeeds and the wrapper's task is T bound with B.         *)
C1_StrictConstruction ==
  last.op = "new" =>
    LET bound == BoundWith(Templates[last.tid], last.kw.bindings)
        chk == Check(bound)
    IN  /\ last.out.raised <=> (last.kw.strict /\ ~chk.ok)
        /\ last.out.raised =>
             /\ last.out.exc = "InvalidTask"
             /\ last.out.msg = chk.message
             /\ last.w = None
        /\ ~last.out.raised =>
             /\ last.w # None
             /\ last.w = wrappers[Len(wrappers)]
             /\ TaskOf(last.w) = bound

C1_Witness ==
  /\ last.op = "new"
  /\ last.out.raised
  /\ last.kw.bindings # <<>>
  /\ last.out.msg = "Task[max_failures] not an Integer"

(* the port names the scanner yields for the processes of the interpolated *)
(* task of wrapper w                                                       *)
ScannedPorts(w) ==
  LET ti == Interpolate(TaskOf(w)).v
      n == IF ti.processes.set THEN Len(ti.processes.v) ELSE 0
  IN  UNION {Range(ProcessPorts(ti.processes.v[i]).ports) : i \in 1..n}

(* C2: ports() returns exactly the set of distinct port names the scanner  *)
(* yields over all processes of the interpolated task, each name once, and *)
(* the empty set when the task has no processes or references no ports.    *)
C2_PortsIsUnion ==
  (last.op = "ports" /\ ~last.out.raised) =>
    /\ last.ports = ScannedPorts(last.w)
    /\ ~Interpolate(TaskOf(last.w)).v.processes.set => last.ports = {}
    /\ (\A i \in 1..Len(Interpolate(TaskOf(last.w)).v.processes.v) :
          ProcessPorts(Interpolate(TaskOf(last.w)).v.processes.v[i]).ports = <<>>)
         => last.ports = {}

C2_Witness ==
  /\ last.op = "ports"
  /\ ~last.out.raised
  /\ last.w.T = 2
  /\ last.ports = {"http", "admin"}

(* C8: binding in the constructor never changes the template passed in:    *)
(* after any sequence of constructions the templates are as they were, and *)
(* every wrapper's task carries the bindings of its own construction and   *)
(* no others.                                                              *)
C8_TemplateUntouched ==
  /\ heap = Templates
  /\ \A i \in 1..Len(wrappers) :
       /\ TaskOf(wrappers[i]).value = Templates[wrappers[i].T].value
       /\ TaskOf(wrappers[i]).scopes =
            BoundWith(Templates[wrappers[i].T], wrappers[i].B).scopes

C8_Witness ==
  /\ Len(wrappers) = 2
  /\ wrappers[1].T = wrappers[2].T
  /\ wrappers[1].B # <<>>
  /\ wrappers[2].B # <<>>
  /\ wrappers[1].B # wrappers[2].B

(* the position of the last binding for key k in B, 0 if there is none *)
LastFor(B, k) ==
  IF \E i \in 1..Len(B) : B[i].key = k
  THEN CHOOSE i \in 1..Len(B) :
         B[i].key = k /\ \A j \in (i + 1)..Len(B) : B[j].key # k
  ELSE 0

(* C9: when the binding sequence of a construction holds several bindings  *)
(* for one key, the placeholder resolves to the value of the last of them  *)
(* in the wrapper's interpolated template; an empty sequence binds         *)
(* nothing.                                                                *)
C9_LaterBindingWins ==
  \A i \in 1..Len(wrappers) :
    LET w == wrappers[i]
        cmd == Interpolate(TaskOf(w)).v.processes.v[1].cmdline
    IN  /\ (w.T \in {3, 5} /\ LastFor(w.B, RefX) # 0) =>
             cmd = <<Lit("echo " \o w.B[LastFor(w.B, RefX)].val)>>
        /\ (w.T = 3 /\ w.B = <<>>) => cmd = <<Lit("echo "), Hole(RefX)>>
        /\ (w.T = 5 /\ w.B = <<>>) => cmd = <<Lit("echo abc")>>

C9_Witness ==
  \E i \in 1..Len(wrappers) :
    /\ wrappers[i].T = 3
    /\ Cardinality({j \in 1..Len(wrappers[i].B) : wrappers[i].B[j].key = RefX}) = 2
    /\ Interpolate(TaskOf(wrappers[i])).v.processes.v[1].cmdline = <<Lit("echo 7")>>

(* whether some step of from_file on document doc with keywords kw raises: *)
(* the file is missing, is not JSON, is not a task object, or the task     *)
(* built from it, bound with kw.bindings, is invalid under strict          *)
FromFileFails(doc, kw) ==
  \/ doc.jtype # "object"
  \/ doc.badkey
  \/ kw.strict /\ ~Check(BoundWith(Task(doc.members), kw.bindings)).ok

(* C3: from_file never raises: whenever opening the file, parsing it,      *)
(* building the Task or the constructor (InvalidTask under strict) fails   *)
(* it returns None, and it returns a wrapper, of the task read from the    *)
(* file, only when all these steps succeed.                                *)
C3_FromFileNeverRaises ==
  last.op = "from_file" =>
    /\ ~last.out.raised
    /\ (last.w = None) <=> FromFileFails(fs[last.file], last.kw)
    /\ last.w # None =>
         TaskOf(last.w) = BoundWith(Task(fs[last.file].members), last.kw.bindings)

C3_Witness ==
  /\ last.op = "from_file"
  /\ last.w = None
  /\ fs[last.file].jtype = "object"
  /\ ~fs[last.file].badkey
  /\ last.kw.strict

(* no placeholder is left in the interpolated task *)
FullyBound(obj) ==
  LET ti == Interpolate(obj).v
  IN  /\ Unbound(ti.name.v) = <<>>
      /\ \A i \in 1..Len(ti.processes.v) : Unbound(ti.processes.v[i].cmdline) = <<>>
      /\ ti.max_failures.v.ty = "int"

(* C6: round trip: for a validated, fully bound wrapper W, from_file of    *)
(* the file W.to_file wrote returns a wrapper whose interpolated JSON      *)
(* value equals that of W.                                                 *)
C6_RoundTrip ==
  (/\ last.op = "from_file"
   /\ writer[last.file] # None
   /\ Check(TaskOf(writer[last.file])).ok
   /\ FullyBound(TaskOf(writer[last.file])))
  =>
    /\ last.w # None
    /\ get(Interpolate(TaskOf(last.w)).v)
         = get(Interpolate(TaskOf(writer[last.file])).v)
    /\ ~Interpolate(TaskOf(last.w)).err

C6_Witness ==
  /\ last.op = "from_file"
  /\ writer[last.file] # None
  /\ writer[last.file].T = 3
  /\ Check(TaskOf(writer[last.file])).ok
  /\ FullyBound(TaskOf(writer[last.file]))
  /\ last.w # None
  /\ fs[last.file].members.name = JString(<<"t3-v">>)
  /\ fs[last.file].members.max_failures = JNumber(7)
  /\ Interpolate(TaskOf(last.w)).v.max_failures.v = IntVal(7)

(* C7: load_json never raises and always returns a loader whose tasks()    *)
(* has exactly one entry: the wrapper built from the document when         *)
(* reading, parsing and validation succeed, the None placeholder exactly   *)
(* when from_file failed.  The list of a loader load_json returned starts  *)
(* with that entry for good; what follows it the caller put there itself.  *)
C7_LoadJsonOneEntry ==
  /\ last.op = "load_json" =>
       /\ ~last.out.raised
       /\ loaders # <<>>
       /\ LET tc == loaders[Len(loaders)]
          IN  /\ tc.by = "load_json"
              /\ Len(tc.tasks) = 1
              /\ (tc.tasks[1] = None) <=> FromFileFails(fs[last.file], last.kw)
              /\ tc.tasks[1] # None =>
                   TaskOf(tc.tasks[1])
                     = BoundWith(Task(fs[last.file].members), last.kw.bindings)
  /\ \A i \in 1..Len(loaders) :
       loaders[i].by = "load_json" =>
         /\ Len(loaders[i].log) = 1
         /\ loaders[i].tasks = loaders[i].log \o loaders[i].added

C7_Witness ==
  /\ last.op = "load_json"
  /\ Len(loaders) = 2
  /\ loaders[1].tasks[1] # None
  /\ loaders[2].tasks = <<None>>
  /\ fs[last.file] = Garbage

(* the identities of the wrappers in a task list *)
Wids(tasks) == {tasks[k].wid : k \in 1..Len(tasks)} \ {0}

(* C4: for every loader load returned, tasks() is exactly the sequence of  *)
(* wrappers the export calls of that evaluation created, one per call in   *)
(* call order, and no load or load_json call has put a wrapper of another  *)
(* evaluation into it: the list load returns is the exports alone, and all *)
(* that ever follows them is what the caller added to the list itself.     *)
C4_TasksAreThisLoadsExports ==
  /\ (last.op = "load" /\ ~last.out.raised) =>
       /\ loaders # <<>>
       /\ loaders[Len(loaders)].by = "load"
       /\ loaders[Len(loaders)].tasks = loaders[Len(loaders)].log
  /\ \A i \in 1..Len(loaders) :
       /\ loaders[i].tasks = loaders[i].log \o loaders[i].added
       /\ \A k \in 1..Len(loaders[i].log) :
            loaders[i].by = "load" =>
              TaskOf(loaders[i].tasks[k])
                = BoundWith(Templates[loaders[i].tasks[k].T], loaders[i].kw.bindings)
       /\ \A j \in 1..Len(loaders) :
            j # i => Wids(loaders[i].log) \cap Wids(loaders[j].log) = {}

C4_Witness ==
  /\ Len(loaders) = 2
  /\ loaders[1].by = "load"
  /\ loaders[2].by = "load"
  /\ Len(loaders[1].log) = 1
  /\ Len(loaders[2].log) = 2
  /\ loaders[2].tasks[1].T = 3
  /\ loaders[2].tasks[2].T = 1
  /\ loaders[2].tasks = loaders[2].log \o <<loaders[1].log[1]>>
  /\ last.op = "add_task"

(* C5: load is all-or-nothing: an exception raised while the source is     *)
(* evaluated (the export of an invalid task under strict included) reaches *)
(* the caller and no loader is returned, whatever was exported before;     *)
(* every entry of a loader returned in strict mode wraps a valid task.     *)
C5_Step ==
  /\ (last'.op = "load" /\ last'.out.raised) =>
       /\ loaders' = loaders
       /\ lc' = Idle
  /\ (/\ lc.pc = "eval"
      /\ last'.stmt = "export"
      /\ lc.ns["export"] = ExportFn
      /\ lc.kw.strict
      /\ ~Check(BoundWith(Templates[last'.tid], lc.kw.bindings)).ok) =>
       /\ last'.op = "load"
       /\ last'.out = Raise("InvalidTask",
                            Check(BoundWith(Templates[last'.tid], lc.kw.bindings)).message)
  /\ (lc.pc = "eval" /\ last'.stmt = "raise") =>
       (last'.op = "load" /\ last'.out = Raise("RuntimeError", ""))
  /\ Len(loaders') > Len(loaders) =>
       LET tc == loaders'[Len(loaders')]
       IN  (tc.by = "load" /\ tc.kw.strict) =>
             \A k \in 1..Len(tc.tasks) : Check(TaskOf(tc.tasks[k])).ok

C5_AllOrNothing == [][C5_Step]_vars

C5_Witness ==
  /\ last.op = "load"
  /\ last.out.exc = "InvalidTask"
  /\ last.n >= 1
  /\ lc = Idle

(* C10: after any sequence of load calls SCHEMA has the keys and values it *)
(* had before the first: it gains no export entry and no name a script     *)
(* defined or rebound, so each evaluation starts from the schema alone.    *)
C10_SchemaIsolated ==
  /\ SCHEMA = SCHEMA0
  /\ (lc.pc = "eval" /\ lc.n = 0) => lc.ns = [SCHEMA0 EXCEPT !["export"] = ExportFn]

C10_Witness ==
  /\ Len(loaders) >= 1
  /\ loaders[1].ns["t"] = "v1"
  /\ last.op = "load"
  /\ last.out = Raise("NameError", "t")
  /\ last.n = 0

(* the addresses written between {{ and }} in a text *)
Placeholders(text) ==
  {SubSeq(text, i + 1, k - 1) :
     <<i, k>> \in {ik \in (1..Len(text)) \X (1..Len(text)) :
                     /\ ik[1] < ik[2]
                     /\ text[ik[1]] = "{{"
                     /\ text[ik[2]] = "}}"
                     /\ \A j \in (ik[1] + 1)..(ik[2] - 1) : text[j] # "}}"}}

(* the placeholders left in the JSON document of a task, as addresses *)
DocRefs(doc) ==
  LET js == doc.members
  IN  Placeholders(js.name.text)
        \cup UNION {Placeholders(js.processes.items[i].cmdline) :
                      i \in 1..Len(js.processes.items)}
        \cup Placeholders(js.max_failures.text)

(* the placeholders of a template value, as addresses *)
TemplateRefs(val) ==
  {Address(r) :
     r \in Range(Unbound(val.name.v))
             \cup UNION {Range(Unbound(val.processes.v[i].cmdline)) :
                           i \in 1..Len(val.processes.v)}
             \cup (IF val.max_failures.v.ty = "str"
                   THEN Range(Unbound(val.max_failures.v.s)) ELSE {})}

(* the keys bound in the task of wrapper w: those of its construction and  *)
(* those its template already carried                                      *)
BoundKeys(w) ==
  {Address(w.B[j].key) : j \in 1..Len(w.B)}
    \cup {Address(Templates[w.T].scopes[j].key) :
            j \in 1..Len(Templates[w.T].scopes)}

(* C11: to_json emits the raw template value: the document is the one of   *)
(* the template the wrapper was built from, with every placeholder still   *)
(* in it whatever the bindings supplied; to_file writes the interpolated   *)
(* template: no placeholder of a bound key is left in the file.            *)
C11_RawVersusInterpolated ==
  /\ last.op = "to_json" =>
       /\ last.doc = JsonObject(get(Templates[last.w.T].value))
       /\ DocRefs(last.doc) = TemplateRefs(Templates[last.w.T].value)
  /\ (last.op = "to_file" /\ ~last.out.raised) =>
       /\ fs[last.file] = last.doc
       /\ last.doc
            = JsonObject(get(Interpolate(BoundWith(Templates[last.w.T], last.w.B)).v))
       /\ DocRefs(last.doc) \cap BoundKeys(last.w) = {}

C11_Witness ==
  /\ last.op = "to_json"
  /\ last.w.T = 3
  /\ LastFor(last.w.B, RefX) = 3
  /\ last.doc.members.processes.items[1].cmdline = <<"echo ", "{{", "x", "}}">>
  /\ last.doc.members.max_failures = JString(<<"{{", "x", "}}">>)
  /\ \E f \in Files :
       /\ writer[f] = last.w
       /\ fs[f].members.processes.items[1].cmdline = <<"echo 7">>
       /\ fs[f].members.max_failures = JNumber(7)

(* the calls of name e the command made, in order *)
Calls(e) == SelectSeq(cli.events, LAMBDA ev : ev.e = e)

(* the command ended in die(text) *)
DiedWith(text) ==
  /\ cli.exit = "exited"
  /\ cli.events # <<>>
  /\ cli.events[Len(cli.events)].e = "die"
  /\ cli.events[Len(cli.events)].arg = [text |-> text, repr |-> <<>>]

(* the command ended in die('Invalid shards list: ...'), the message       *)
(* ending in the quoted --shards value                                     *)
DiedOfShards ==
  /\ cli.exit = "exited"
  /\ cli.events # <<>>
  /\ cli.events[Len(cli.events)].e = "die"
  /\ cli.events[Len(cli.events)].arg.text = "Invalid shards list: "
  /\ cli.events[Len(cli.events)].arg.repr = <<"'">> \o cli.opt.shards.s \o <<"'">>

NotAList == [ok |-> FALSE, ids |-> <<>>]

RECURSIVE ReadIds(_, _, _, _, _)
(* a comma-separated list of integers read character by character from    *)
(* the left: each element is an optional sign and decimal digits, possibly *)
(* with whitespace around it and between the sign and the digits.  at:     *)
(* "pre" before the element, "signed" after its sign, "num" in its digits, *)
(* "post" after them                                                       *)
ReadIds(s, at, sign, cur, ids) ==
  IF s = <<>>
  THEN IF at \in {"num", "post"} THEN [ok |-> TRUE, ids |-> Append(ids, sign * cur)]
       ELSE NotAList
  ELSE LET c == Head(s)
       IN  IF c = ","
           THEN IF at \in {"num", "post"}
                THEN ReadIds(Tail(s), "pre", 1, 0, Append(ids, sign * cur))
                ELSE NotAList
           ELSE IF c = " "
           THEN IF at = "pre" THEN ReadIds(Tail(s), "pre", sign, cur, ids)
                ELSE IF at = "signed" THEN ReadIds(Tail(s), "signed", sign, cur, ids)
                ELSE ReadIds(Tail(s), "post", sign, cur, ids)
           ELSE IF c \in {"-", "+"}
           THEN IF at = "pre"
                THEN ReadIds(Tail(s), "signed", IF c = "-" THEN 0 - 1 ELSE 1, 0, ids)
                ELSE NotAList
           ELSE IF IsDigit(c)
           THEN IF at = "post" THEN NotAList
                ELSE ReadIds(Tail(s), "num", sign, 10 * cur + DigitVal(c), ids)
           ELSE NotAList

(* s is a comma-separated list of integers; the integers of the list *)
IntegerList(s) == ReadIds(s, "pre", 1, 0, <<>>).ok
IdsOf(s) == ReadIds(s, "pre", 1, 0, <<>>).ids

(* C12: restart never calls api.restart without an explicit shard list:    *)
(* with --shards unset or empty it dies with '--shards is required' and no *)
(* restart call is made; a restart call is made only with --shards set,    *)
(* and then exactly one, carrying the integers of the list in order.       *)
C12_RestartNeedsShards ==
  cli.cmd = "restart" =>
    /\ (~cli.opt.shards.set \/ cli.opt.shards.s = <<>>) =>
         /\ DiedWith("--shards is required")
         /\ Calls("restart") = <<>>
    /\ Calls("restart") # <<>> =>
         /\ cli.opt.shards.set
         /\ IntegerList(cli.opt.shards.s)
         /\ Calls("restart")
              = <<EvShards("restart", ShardList(IdsOf(cli.opt.shards.s)))>>
    /\ (cli.opt.shards.set /\ IntegerList(cli.opt.shards.s)) => Calls("restart") # <<>>

C12_Witness ==
  /\ cli.cmd = "restart"
  /\ cli.opt.shards = ShardsGiven(<<"1", ",", "0">>)
  /\ Calls("restart") = <<EvShards("restart", ShardList(<<1, 0>>))>>
  /\ cli.exit = "returned"

(* the API call kill and update make *)
JobCall == IF cli.cmd = "kill" THEN "kill_job" ELSE "update_job"

(* C13, as stated: for kill and update, --shards not set passes None; a    *)
(* comma-separated list of integers passes those integers in order; a      *)
(* value with any element that is not an integer dies with 'Invalid shards *)
(* list' and no kill_job or update_job call is made.                       *)
C13_AsStated ==
  cli.cmd \in {"kill", "update"} =>
    /\ ~cli.opt.shards.set => Calls(JobCall) = <<EvShards(JobCall, AllShards)>>
    /\ (cli.opt.shards.set /\ IntegerList(cli.opt.shards.s)) =>
         Calls(JobCall) = <<EvShards(JobCall, ShardList(IdsOf(cli.opt.shards.s)))>>
    /\ (cli.opt.shards.set /\ ~IntegerList(cli.opt.shards.s)) =>
         /\ DiedOfShards
         /\ Calls(JobCall) = <<>>

(* C13, amended: --shards not set or set to the empty string passes None;  *)
(* a comma-separated list of integers passes those integers in order; any  *)
(* other non-empty value dies with 'Invalid shards list' and no kill_job   *)
(* or update_job call is made.                                             *)
C13_ShardsOfKillAndUpdate ==
  cli.cmd \in {"kill", "update"} =>
    /\ (~cli.opt.shards.set \/ cli.opt.shards.s = <<>>) =>
         Calls(JobCall) = <<EvShards(JobCall, AllShards)>>
    /\ (cli.opt.shards.set /\ IntegerList(cli.opt.shards.s)) =>
         Calls(JobCall) = <<EvShards(JobCall, ShardList(IdsOf(cli.opt.shards.s)))>>
    /\ (cli.opt.shards.set /\ cli.opt.shards.s # <<>>
          /\ ~IntegerList(cli.opt.shards.s)) =>
         /\ DiedOfShards
         /\ Calls(JobCall) = <<>>

C13_Witness ==
  /\ cli.cmd = "kill"
  /\ cli.opt.shards = ShardsGiven(<<>>)
  /\ Calls("kill_job") = <<EvShards("kill_job", AllShards)>>

(* C14: runtask never creates or runs a Quickrun for an expensive task      *)
(* without the flag: a task is expensive when instances > 25, or           *)
(* instances*cpus > 50 cores, or instances*ram > 50 GB, or instances*disk  *)
(* > 500 GB, a value equal to the limit being allowed; an expensive task   *)
(* without the flag dies with 'Task too expensive.' before Quickrun and    *)
(* the API client are constructed; with the flag, or when not expensive,   *)
(* the Quickrun is created and run.                                        *)
C14_ExpensiveNeedsFlag ==
  cli.cmd = "runtask" =>
    LET o == cli.opt
        expensive == \/ o.instances > 25
                     \/ o.instances * o.cpus > 500
                     \/ o.instances * o.ram > 51200
                     \/ o.instances * o.disk > 512000
    IN  /\ (expensive /\ ~o.yes /\ o.nargs >= 2) =>
             /\ DiedWith("Task too expensive.")
             /\ Calls("Quickrun") = <<>>
             /\ Calls("MesosClientAPI") = <<>>
             /\ Calls("qr.run") = <<>>
        /\ ((~expensive \/ o.yes) /\ o.nargs >= 2) =>
             /\ cli.exit = "returned"
             /\ Calls("die") = <<>>
             /\ SubSeq(cli.events, Len(cli.events) - 2, Len(cli.events))
                  = <<Ev("Quickrun"), Ev("MesosClientAPI"), Ev("qr.run")>>
        /\ o.nargs < 2 => Calls("Quickrun") = <<>> /\ Calls("qr.run") = <<>>

C14_Witness ==
  /\ cli.cmd = "runtask"
  /\ ~cli.opt.yes
  /\ cli.opt.instances = 25
  /\ cli.opt.cpus = 21
  /\ cli.opt.ram = 2048
  /\ cli.opt.disk = 20480
  /\ DiedWith("Task too expensive.")
  /\ Calls("Quickrun") = <<>>

(* the position of the first call of name e the command made, 0 if none *)
Pos(e) ==
  IF \E i \in 1..Len(cli.events) : cli.events[i].e = e
  THEN CHOOSE i \in 1..Len(cli.events) :
         cli.events[i].e = e /\ \A j \in 1..(i - 1) : cli.events[j].e # e
  ELSE 0

(* handle_open ends the process: the scheduler has a url and a job is     *)
(* named without a role                                                    *)
OpenDies == cli.opt.url /\ cli.opt.job /\ ~cli.opt.role

(* create called create_job and checked the response *)
CreatesAndChecks ==
  /\ Len(Calls("create_job")) = 1
  /\ Pos("check_and_log_response") = Pos("create_job") + 1
  /\ ~cli.opt.respOk => (cli.exit = "exited" /\ Calls("wait_until") = <<>>)

(* create waited as --wait_until asks: after the check for RUNNING and     *)
(* FINISHED, with the predicate of that state, and not at all for PENDING  *)
(* or when the check failed                                                *)
WaitsAsAsked ==
  /\ cli.opt.wait_until = "PENDING" => Calls("wait_until") = <<>>
  /\ (cli.opt.respOk /\ cli.opt.wait_until = "PENDING") => cli.exit = "returned"
  /\ (cli.opt.respOk /\ cli.opt.wait_until = "RUNNING") =>
       /\ Calls("wait_until") = <<EvArg("wait_until", Text("running_or_finished"))>>
       /\ Pos("wait_until") > Pos("check_and_log_response")
       /\ cli.exit = "returned" <=> cli.opt.waits
  /\ (cli.opt.respOk /\ cli.opt.wait_until = "FINISHED") =>
       /\ Calls("wait_until") = <<EvArg("wait_until", Text("terminal"))>>
       /\ Pos("wait_until") > Pos("check_and_log_response")
       /\ cli.exit = "returned" <=> cli.opt.waits

(* C15, as stated: every create command calls create_job and checks the    *)
(* response first, then returns only after the wait --wait_until asks for  *)
(* has returned, and after the check without a wait for PENDING.           *)
C15_AsStated == cli.cmd = "create" => (CreatesAndChecks /\ WaitsAsAsked)

(* C15, amended: unless the configuration's cluster is 'local', create     *)
(* calls create_job and checks the response first; then, unless            *)
(* handle_open ends the process, it returns only after the wait            *)
(* --wait_until asks for has returned.  When handle_open ends the process  *)
(* no wait is started and create does not return.  For the cluster 'local' *)
(* there is no create_job call and no wait, whatever --wait_until says:    *)
(* create returns what spawn_local returns, or the process exits where     *)
(* local spawning is not supported.                                        *)
C15_CreateWaits ==
  cli.cmd = "create" =>
    /\ ~cli.opt.local => CreatesAndChecks
    /\ (~cli.opt.local /\ ~OpenDies) => WaitsAsAsked
    /\ (~cli.opt.local /\ OpenDies /\ cli.opt.respOk) =>
         /\ DiedWith("If job specified, must specify role!")
         /\ Pos("die") > Pos("check_and_log_response")
         /\ Calls("wait_until") = <<>>
    /\ cli.opt.local =>
         /\ Calls("create_job") = <<>>
         /\ Calls("wait_until") = <<>>
         /\ cli.opt.spawn =>
              /\ cli.events = <<Ev("get_config"), Ev("spawn_local")>>
              /\ cli.exit = "returned"
         /\ ~cli.opt.spawn =>
              /\ cli.events = <<Ev("get_config")>>
              /\ cli.exit = "exited"

C15_Witness ==
  /\ cli.cmd = "create"
  /\ ~cli.opt.local
  /\ cli.opt.wait_until = "FINISHED"
  /\ cli.exit = "returned"
  /\ Pos("handle_open") = Pos("check_and_log_response") + 1
  /\ cli.events[Len(cli.events)] = EvArg("wait_until", Text("terminal"))

(* reference r lies under the prefix thermos.ports *)
UnderPorts(r) == Len(r) > 2 /\ r[1] = Deref("thermos") /\ r[2] = Deref("ports")

RECURSIVE PortNames(_)
(* one name per reference of refs under thermos.ports, in the order of     *)
(* refs                                                                     *)
PortNames(refs) ==
  IF refs = <<>> THEN <<>>
  ELSE (IF UnderPorts(Head(refs)) THEN <<Head(refs)[3].value>> ELSE <<>>)
         \o PortNames(Tail(refs))

(* the unresolved references of the process the last scan was called on *)
ScannedRefs ==
  Unbound(Interpolate(TaskOf(last.w)).v.processes.v[last.n].cmdline)

(* C16: the scanner returns one port name per unresolved reference of the  *)
(* process under the prefix thermos.ports, in the order the references are *)
(* reported and with duplicates kept, and nothing for a reference outside  *)
(* that prefix (thermos alone, thermos.ports itself, another scope).       *)
C16_ScannerOrderAndDuplicates ==
  (last.op = "scan" /\ ~last.out.raised) =>
    /\ last.names = PortNames(ScannedRefs)
    /\ Len(last.names)
         = Cardinality({i \in 1..Len(ScannedRefs) : UnderPorts(ScannedRefs[i])})

C16_Witness ==
  /\ last.op = "scan"
  /\ ~last.out.raised
  /\ last.names = <<"http", "admin">>
  /\ {RefThermos, RefPortsOnly, RefX} \subseteq Range(ScannedRefs)

(* reference r lies under thermos.ports and what follows the prefix is not *)
(* a single index access                                                   *)
Malformed(r) == UnderPorts(r) /\ ~(Len(r) = 3 /\ r[3].kind = "index")

(* reference r lies under thermos.ports and what follows the prefix does   *)
(* not begin with an index access                                          *)
NotIndexed(r) == UnderPorts(r) /\ r[3].kind # "index"

(* some process of the interpolated task of the last call has an           *)
(* unresolved reference for which P holds                                  *)
SomeUnresolved(P(_)) ==
  \E k \in 1..Len(Interpolate(TaskOf(last.w)).v.processes.v) :
    \E r \in Range(Unbound(Interpolate(TaskOf(last.w)).v.processes.v[k].cmdline)) :
      P(r)

(* C17 as stated: for an unresolved reference under thermos.ports whose    *)
(* remainder is not a single index access the scanner fails with an        *)
(* AssertionError and returns nothing, and the failure comes out of        *)
(* ThermosTaskWrapper.ports().                                             *)
C17_AsStated ==
  /\ (last.op = "scan" /\ \E r \in Range(ScannedRefs) : Malformed(r)) =>
       /\ last.out = Raise("AssertionError", "")
       /\ last.names = <<>>
  /\ (/\ last.op = "ports"
      /\ ~Interpolate(TaskOf(last.w)).err
      /\ SomeUnresolved(Malformed)) =>
       /\ last.out = Raise("AssertionError", "")
       /\ last.ports = {}

(* C17: for an unresolved reference under thermos.ports whose remainder    *)
(* does not begin with an index access (thermos.ports.health.sub) the      *)
(* scanner fails with an AssertionError and returns nothing, and it fails  *)
(* only then; the failure comes out of ThermosTaskWrapper.ports() for a    *)
(* task with such a process.  A remainder that begins with an index access *)
(* and goes on (thermos.ports[health].sub) passes the assertion and gives  *)
(* the name in the index.                                                  *)
C17_MalformedPortAsserts ==
  /\ last.op = "scan" =>
       /\ last.out.raised <=> \E r \in Range(ScannedRefs) : NotIndexed(r)
       /\ last.out.raised => (last.out = Raise("AssertionError", "") /\ last.names = <<>>)
       /\ ~last.out.raised =>
            \A r \in Range(ScannedRefs) :
              Malformed(r) => r[3].value \in Range(last.names)
  /\ (/\ last.op = "ports"
      /\ ~Interpolate(TaskOf(last.w)).err
      /\ SomeUnresolved(NotIndexed)) =>
       /\ last.out = Raise("AssertionError", "")
       /\ last.ports = {}
  /\ (/\ last.op = "ports"
      /\ ~Interpolate(TaskOf(last.w)).err
      /\ ~SomeUnresolved(NotIndexed)) =>
       /\ ~last.out.raised
       /\ SomeUnresolved(LAMBDA q : q = RefNested) => "health" \in last.ports

C17_Witness ==
  /\ last.op = "ports"
  /\ last.w.T = 6
  /\ last.out = Raise("AssertionError", "")
  /\ last.ports = {}
  /\ RefDotted \in Range(Unbound(TaskOf(last.w).value.processes.v[1].cmdline))

(* the set of port names of the task built from template T with bindings B *)
PortsOfConstruction(T, B) ==
  LET ps == Interpolate(BoundWith(T, B)).v.processes.v
  IN  UNION {Range(PortNames(Unbound(ps[k].cmdline))) : k \in 1..Len(ps)}

(* C18: ports() is pure: a call of ports, to_json or to_file leaves the    *)
(* caller's templates and the task every wrapper holds as they were; the   *)
(* set ports returns is the one the wrapper's construction determines, and *)
(* a repeated call returns what the call before it returned.               *)
C18_Step ==
  /\ last'.op \in {"ports", "scan", "to_json", "to_file"} =>
       /\ heap' = heap
       /\ wrappers' = wrappers
  /\ (last'.op = "ports" /\ ~last'.out.raised) =>
       last'.ports = PortsOfConstruction(Templates[last'.w.T], last'.w.B)
  /\ (last'.op = "ports" /\ last'.n = 2) =>
       /\ last.op = "ports"
       /\ last'.ports = last.ports
       /\ last'.out = last.out

C18_PortsIsPure == [][C18_Step]_vars

C18_Witness ==
  /\ last.op = "ports"
  /\ last.n = 2
  /\ last.w.B # <<>>
  /\ last.ports = {"http", "admin"}
  /\ \E f \in Files : writer[f] = last.w

(* the phase of the load call in progress, from where the control is:     *)
(* INIT when the loader, export and the namespace have been set up and     *)
(* nothing is evaluated yet, COLLECTING when the last statement executed   *)
(* was an export call that appended a task, EVALUATING after any other     *)
(* statement, DONE when load has returned its loader; NONE when no load    *)
(* call has been made, the last one raised, or the caller has gone on to   *)
(* something else                                                          *)
Phase ==
  IF lc.pc = "eval"
  THEN IF last.op = "load begin" THEN "INIT"
       ELSE IF last.stmt = "export" THEN "COLLECTING" ELSE "EVALUATING"
  ELSE IF last.op = "load" /\ ~last.out.raised THEN "DONE" ELSE "NONE"

Rank(ph) ==
  CASE ph = "INIT" -> 1
    [] ph = "EVALUATING" -> 2
    [] ph = "COLLECTING" -> 3
    [] ph = "DONE" -> 4
    [] OTHER -> 0

(* the task list of a load call: empty when the evaluation starts, grown   *)
(* by exactly the wrapper of each export call the source makes and by      *)
(* nothing else, and once load has returned it changed by no step but the  *)
(* caller's own add_task or list append, outside any load call             *)
ListDiscipline ==
  /\ (lc.pc = "idle" /\ lc'.pc = "eval") => (lc'.tasks = <<>> /\ Phase' = "INIT")
  /\ (lc.pc = "eval" /\ lc'.pc = "eval") =>
       IF last'.stmt = "export"
       THEN /\ last'.w # None
            /\ lc'.tasks = Append(lc.tasks, last'.w)
       ELSE lc'.tasks = lc.tasks
  /\ (lc.pc = "eval" /\ Phase' = "DONE") =>
       /\ Len(loaders') = Len(loaders) + 1
       /\ loaders'[Len(loaders')].tasks = lc.tasks
  /\ Len(loaders') >= Len(loaders)
  /\ \A i \in 1..Len(loaders) :
       \/ loaders'[i] = loaders[i]
       \/ /\ last'.op \in {"add_task", "tasks append"}
          /\ last'.n = i
          /\ lc.pc = "idle"
          /\ lc' = lc
          /\ loaders'[i].tasks = Append(loaders[i].tasks, last'.w)

(* C19, as stated: a load call moves through INIT, EVALUATING, COLLECTING, *)
(* DONE in that order and never back, with the task list empty at the      *)
(* start, grown only by export calls and, after the return, changed by no  *)
(* step of the loader.                                                     *)
C19_LinearStep ==
  /\ (lc.pc = "eval" /\ Phase' # "NONE") => Rank(Phase') >= Rank(Phase)
  /\ ListDiscipline

C19_AsStated == [][C19_LinearStep]_vars

(* C19, amended: a load call starts in INIT, with a new loader whose task  *)
(* list is empty, before anything is evaluated; then EVALUATING and        *)
(* COLLECTING alternate as the source runs, the list growing by one task   *)
(* at each export call of the source and at no other step; the call ends   *)
(* in DONE when the source is exhausted, or with the exception it raised;  *)
(* after the return no load or load_json call changes the loader's list.   *)
C19_Step ==
  /\ Phase' = "INIT" => lc.pc = "idle"
  /\ (Phase' \in {"EVALUATING", "COLLECTING"} /\ lc' # lc) =>
       Phase \in {"INIT", "EVALUATING", "COLLECTING"}
  /\ (Phase' = "DONE" /\ lc' # lc) =>
       Phase \in {"INIT", "EVALUATING", "COLLECTING"}
  /\ Phase = "DONE" => Phase' \in {"DONE", "INIT", "NONE"}
  /\ ListDiscipline

C19_LoadPhases == [][C19_Step]_vars

C19_Witness ==
  /\ Phase = "EVALUATING"
  /\ Len(lc.tasks) = 1
  /\ lc.n = 2
  /\ Len(loaders) = 1
  /\ loaders[1].log # <<>>
  /\ loaders[1].added = <<None>>

====
